---- MODULE Spec2Model ----
(***************************************************************************)
(* generate-combinations (src/src/index.ts): the combinators one, some and *)
(* optional, the class Combination, the subset enumerator arrayCombinate,  *)
(* the omission test isKeyValueUndefined, and the expansion engine         *)
(* generate with its variants generate.mutable and generate.nest.          *)
(*                                                                         *)
(* JavaScript values are tagged records; arrays and objects live on a heap *)
(* of cells so that two references to the same array are distinguishable   *)
(* from two equal arrays.  One behaviour is one caller session.  Under     *)
(* Spec the caller builds a template (or an input array), makes one call,  *)
(* receives the result and may then mutate one nested value through one    *)
(* result.  Under SpecNest the caller builds a template around             *)
(* generate.nest(sub) and calls generate with it.  Under SpecTwice the     *)
(* caller calls generate twice with one template, with or without log.     *)
(* Under SpecIllegal the second call takes the template written with       *)
(* illegal; under SpecKeys the template's keys come in several orders of   *)
(* declaration; under SpecAssign the caller writes to the top level of a   *)
(* result between two calls; under SpecShared the caller mutates a nested  *)
(* value between or after two calls.                                       *)
(***************************************************************************)
EXTENDS Integers, Sequences, FiniteSets, TLC

\* ------------------------------------------------------------------ bounds

\* most fields a template declares
MaxFields == 2
\* most values handed to one(...)
MaxCand == 2
\* longest input array of a direct arrayCombinate call
MaxArr == 3

\* ------------------------------------------------------------------ values

\* type Value (index.ts 6-15) and typeof KeyValueUndefined (index.ts 41):
\* t is the tag, v the number / string id / heap address, f the function.
Num(n) == [t |-> "number", v |-> n, f |-> ""]
Str(n) == [t |-> "string", v |-> n, f |-> ""]
Null == [t |-> "null", v |-> 0, f |-> ""]
Undefined == [t |-> "undefined", v |-> 0, f |-> ""]
Ref(a) == [t |-> "ref", v |-> a, f |-> ""]
Fn(name) == [t |-> "function", v |-> 0, f |-> name]

\* export class KeyValueUndefined {}: the class itself is the marker value
KeyValueUndefined == Fn("KeyValueUndefined")

\* The function values a caller can put in a template:
\*   arrow      () => 5                       not a constructor, new throws
\*   plain      function () {} / class A {}   constructs an unrelated object
\*   subclass   class S extends KeyValueUndefined {}
\*   factory    function () { return new KeyValueUndefined() }
\*   thrower    class T { constructor() { throw 0 } }
FunctionNames == {"KeyValueUndefined", "arrow", "plain", "subclass", "factory", "thrower"}

\* typeof data
TypeOf(data) ==
  CASE data.t = "function" -> "function"
    [] data.t = "ref" -> "object"
    [] data.t = "null" -> "object"
    [] OTHER -> data.t

\* new data() throws (a TypeError for a non-constructor, or the constructor's own throw)
NewThrows(data) == data.f \in {"arrow", "thrower"}

\* new data() instanceof KeyValueUndefined, for a data whose construction returns
NewIsInstanceOfKeyValueUndefined(data) == data.f \in {"KeyValueUndefined", "subclass", "factory"}

\* isKeyValueUndefined (index.ts 48-59)
IsKeyValueUndefined(data) ==
  IF TypeOf(data) # "function" THEN FALSE
  ELSE IF NewThrows(data) THEN FALSE
  ELSE NewIsInstanceOfKeyValueUndefined(data)

\* ------------------------------------------------------------------ heap

\* An array is a cell with kind "array" and its elements in vs; an object is a
\* cell with kind "object", its own keys in insertion order in ks and the
\* values beside them in vs.  An address is an index into the heap.
ArrayCell(items) == [kind |-> "array", ks |-> <<>>, vs |-> items]
ObjectCell(keys, vals) == [kind |-> "object", ks |-> keys, vs |-> vals]
EmptyObject == ObjectCell(<<>>, <<>>)

HasKey(cell, key) == \E p \in 1..Len(cell.ks) : cell.ks[p] = key
KeyPos(cell, key) == CHOOSE p \in 1..Len(cell.ks) : cell.ks[p] = key
Get(cell, key) == IF HasKey(cell, key) THEN cell.vs[KeyPos(cell, key)] ELSE Undefined

\* cell[key] = value: overwrite in place, or append a new own key
SetKey(cell, key, value) ==
  IF HasKey(cell, key)
  THEN [cell EXCEPT !.vs[KeyPos(cell, key)] = value]
  ELSE [cell EXCEPT !.ks = Append(@, key), !.vs = Append(@, value)]

\* delete cell[key]
DeleteKey(cell, key) ==
  LET kept == {p \in 1..Len(cell.ks) : cell.ks[p] # key}
      Place[n \in 0..Len(cell.ks)] ==
        IF n = 0 THEN <<>>
        ELSE IF n \in kept THEN Append(Place[n - 1], n) ELSE Place[n - 1]
      ps == Place[Len(cell.ks)]
  IN [cell EXCEPT !.ks = [p \in 1..Len(ps) |-> cell.ks[ps[p]]],
                  !.vs = [p \in 1..Len(ps) |-> cell.vs[ps[p]]]]

\* ------------------------------------------------------------------ arrayCombinate

\* Math.pow(2, j)
Pow2(j) == 2 ^ j

\* the truth value of `i & Math.pow(2, j)` (index.ts 104).  Both operands are
\* taken to 32 bits, so 2^j for j >= 32 contributes no bit; i stays far below
\* 2^31 here, so its own conversion is the identity.
BitAnd(i, j) == IF j >= 32 THEN FALSE ELSE (i \div Pow2(j)) % 2 = 1

\* the inner loop of arrayCombinate (index.ts 102-107): j runs from j0 upward
\* and pushes array[j] (0-based) onto newArray when bit j of i is set
RECURSIVE NewArray(_, _, _, _)
NewArray(array, i, j, newArray) ==
  IF j >= Len(array) THEN newArray
  ELSE NewArray(array, i, j + 1,
                IF BitAnd(i, j) THEN Append(newArray, array[j + 1]) ELSE newArray)

\* a plausible slip: the emptiness test of line 108 dropped
PushAlways(newArray) == TRUE

\* `if (newArray.length !== 0)` (index.ts 108)
PushNonEmpty(newArray) == Len(newArray) # 0

\* the outer loop of arrayCombinate (index.ts 101-109)
RECURSIVE CombinateLoop(_, _, _, _)
CombinateLoop(array, i, len, resultStack) ==
  IF i >= len THEN resultStack
  ELSE LET newArray == NewArray(array, i, 0, <<>>)
       IN CombinateLoop(array, i + 1, len,
                        IF PushNonEmpty(newArray) THEN Append(resultStack, newArray)
                        ELSE resultStack)

\* a plausible slip: resultStack starts empty instead of [[]]
ArrayCombinateNoSeed(array) == CombinateLoop(array, 0, Pow2(Len(array)), <<>>)

\* arrayCombinate (index.ts 95-112)
ArrayCombinate(array) == CombinateLoop(array, 0, Pow2(Len(array)), << <<>> >>)

\* ------------------------------------------------------------------ combinations

\* class Combination (index.ts 65-70) with the producers of the built-in
\* combinators: kind names the combinator, args what it closed over.
One(values) == [kind |-> "one", args |-> values]
Some(values) == [kind |-> "some", args |-> values]
Optional(value) == [kind |-> "optional", args |-> <<value>>]
\* one(arr) for an array arr the caller holds, at address a: the producer returns
\* that very array
OneOf(a) == [kind |-> "oneOf", args |-> <<Ref(a)>>]
\* new Combination(() => values), built by the caller as the constructor's
\* signature asks (index.ts 67), and new Combination(values), built with the
\* array itself as the README and the test "supports custom combinations" do
CombinationOfThunk(values) == [kind |-> "thunk", args |-> values]
CombinationOfArray(values) == [kind |-> "array", args |-> values]
NoCombination == [kind |-> "", args |-> <<>>]

\* a plausible slip: illegal makes the Combination legal for a required key by
\* leaving the omission marker out of optional's candidates
IllegalWithoutOmission(combination) ==
  IF combination.kind = "optional"
  THEN [kind |-> "thunk", args |-> <<combination.args[1]>>]
  ELSE combination

\* illegal (index.ts 146-147): the Combination handed in, under another type
Illegal(combination) == combination

\* the heap after pushing the arrays of `arrays` as fresh cells, in order
RECURSIVE AllocArrays(_, _)
AllocArrays(h, arrays) ==
  IF arrays = <<>> THEN h
  ELSE AllocArrays(Append(h, ArrayCell(Head(arrays))), Tail(arrays))

\* a plausible slip: some offers the omission of the key where arrayCombinate
\* gives the empty array
ProducerValuesEmptyOmitted(comb, h) ==
  CASE comb.kind = "some" ->
         LET arrays == ArrayCombinate(comb.args)
         IN [values |-> [n \in 1..Len(arrays) |->
                           IF arrays[n] = <<>> THEN KeyValueUndefined ELSE Ref(Len(h) + n)],
             heap |-> AllocArrays(h, arrays)]
    [] comb.kind = "optional" ->
         [values |-> <<comb.args[1], KeyValueUndefined>>, heap |-> h]
    [] comb.kind = "oneOf" -> [values |-> h[comb.args[1].v].vs, heap |-> h]
    [] OTHER -> [values |-> comb.args, heap |-> h]

\* a plausible slip: one's producer written with splice for slice, so that it
\* returns the caller's values and leaves the caller's array empty
ProducerValuesSplice(comb, h) ==
  CASE comb.kind = "oneOf" ->
         [values |-> h[comb.args[1].v].vs,
          heap |-> [h EXCEPT ![comb.args[1].v].vs = <<>>]]
    [] comb.kind = "optional" ->
         [values |-> <<comb.args[1], KeyValueUndefined>>, heap |-> h]
    [] comb.kind = "some" ->
         [values |-> [n \in 1..Len(ArrayCombinate(comb.args)) |-> Ref(Len(h) + n)],
          heap |-> AllocArrays(h, ArrayCombinate(comb.args))]
    [] OTHER -> [values |-> comb.args, heap |-> h]

\* a plausible slip: one's producer returns values.reverse(), which reverses the
\* caller's array in place
ProducerValuesReverse(comb, h) ==
  CASE comb.kind = "oneOf" ->
         LET given == h[comb.args[1].v].vs
             reversed == [p \in 1..Len(given) |-> given[Len(given) + 1 - p]]
         IN [values |-> reversed, heap |-> [h EXCEPT ![comb.args[1].v].vs = reversed]]
    [] comb.kind = "optional" ->
         [values |-> <<comb.args[1], KeyValueUndefined>>, heap |-> h]
    [] comb.kind = "some" ->
         [values |-> [n \in 1..Len(ArrayCombinate(comb.args)) |-> Ref(Len(h) + n)],
          heap |-> AllocArrays(h, ArrayCombinate(comb.args))]
    [] OTHER -> [values |-> comb.args, heap |-> h]

\* a plausible slip: some keeps the arrays it built and hands them out again
\* when they are still what it built
ProducerValuesCached(comb, h) ==
  CASE comb.kind = "some" ->
         LET arrays == ArrayCombinate(comb.args)
             Built(n) == {a \in 1..Len(h) : h[a] = ArrayCell(arrays[n])}
         IN IF \A n \in 1..Len(arrays) : Built(n) # {}
            THEN [values |-> [n \in 1..Len(arrays) |-> Ref(CHOOSE a \in Built(n) : TRUE)],
                  heap |-> h]
            ELSE [values |-> [n \in 1..Len(arrays) |-> Ref(Len(h) + n)],
                  heap |-> AllocArrays(h, arrays)]
    [] comb.kind = "optional" ->
         [values |-> <<comb.args[1], KeyValueUndefined>>, heap |-> h]
    [] comb.kind = "oneOf" -> [values |-> h[comb.args[1].v].vs, heap |-> h]
    [] OTHER -> [values |-> comb.args, heap |-> h]

\* `v.values()` (index.ts 326) is a call: it throws a TypeError when the
\* constructor was handed something that is no function (index.ts 67-68)
ValuesIsCallable(comb) == comb.kind # "array"

\* combination.values() (index.ts 326): the candidate sequence and the heap
\* after the call.  one returns the caller's values (index.ts 227), optional
\* [value, KeyValueUndefined] (index.ts 204-207), some the arrays that
\* arrayCombinate creates (index.ts 175-176).
ProducerValues(comb, h) ==
  CASE comb.kind = "one" -> [values |-> comb.args, heap |-> h]
    [] comb.kind = "oneOf" -> [values |-> h[comb.args[1].v].vs, heap |-> h]
    [] comb.kind = "thunk" -> [values |-> comb.args, heap |-> h]
    [] comb.kind = "optional" ->
         [values |-> <<comb.args[1], KeyValueUndefined>>, heap |-> h]
    [] comb.kind = "some" ->
         LET arrays == ArrayCombinate(comb.args)
         IN [values |-> [n \in 1..Len(arrays) |-> Ref(Len(h) + n)],
             heap |-> AllocArrays(h, arrays)]

\* ------------------------------------------------------------------ template

\* A template field as the caller wrote it: its key, and either a literal
\* value or a Combination.
LiteralField(key, value) == [key |-> key, isComb |-> FALSE, value |-> value, comb |-> NoCombination]
CombinationField(key, comb) == [key |-> key, isComb |-> TRUE, value |-> Undefined, comb |-> comb]

\* isCombination (index.ts 80-81)
IsCombination(field) == field.isComb

\* keys that are canonical array indices, which every object lists first
IsArrayIndex(key) == key \in {"0", "1"}
ArrayIndexOf(key) == IF key = "0" THEN 0 ELSE 1

\* a plausible slip: the entries taken in the order the caller declared them
OwnEntriesAsDeclared(object) == object

\* Object.keys / Object.entries of the template (index.ts 238, 323): array-index
\* keys in ascending numeric order, then the other keys in the order the
\* caller declared them
OwnEntries(object) ==
  SortSeq(SelectSeq(object, LAMBDA e : IsArrayIndex(e.key)),
          LAMBDA a, b : ArrayIndexOf(a.key) < ArrayIndexOf(b.key))
  \o SelectSeq(object, LAMBDA e : ~IsArrayIndex(e.key))

\* a plausible slip: shouldRemove inverted, the base object keeps the Combinations' keys
MakeBaseObjectInverted(object) ==
  LET kept == SelectSeq(OwnEntries(object), LAMBDA e : IsCombination(e))
  IN ObjectCell([p \in 1..Len(kept) |-> kept[p].key], [p \in 1..Len(kept) |-> kept[p].value])

\* makeBaseObject (index.ts 234-243) as generate calls it (index.ts 318-321):
\* the template's own keys that hold no Combination, with the template's values
MakeBaseObject(object) ==
  LET kept == SelectSeq(OwnEntries(object), LAMBDA e : ~IsCombination(e))
  IN ObjectCell([p \in 1..Len(kept) |-> kept[p].key], [p \in 1..Len(kept) |-> kept[p].value])

\* copying the own keys of source onto target, in source order
RECURSIVE CopyKeys(_, _, _)
CopyKeys(target, source, p) ==
  IF p > Len(source.ks) THEN target
  ELSE CopyKeys(SetKey(target, source.ks[p], source.vs[p]), source, p + 1)

\* a plausible slip: the partial combo is not carried over
ObjectAssignBaseOnly(base, combo) == CopyKeys(EmptyObject, base, 1)

\* Object.assign({}, baseObject, combos[k]) (index.ts 361); combo is EmptyObject
\* when combos[k] is undefined, which Object.assign skips
ObjectAssign(base, combo) == CopyKeys(CopyKeys(EmptyObject, base, 1), combo, 1)

\* a plausible slip: only the first accumulated combo is extended
ComboCountOne(combos) == 1

\* `combos.length || 1` (index.ts 360)
ComboCount(combos) == IF Len(combos) = 0 THEN 1 ELSE Len(combos)

\* ------------------------------------------------------------------ structuredClone

\* the addresses a cell refers to
RefsIn(cell) == {cell.vs[p].v : p \in {q \in 1..Len(cell.vs) : cell.vs[q].t = "ref"}}

RECURSIVE ReachFrom(_, _, _)
ReachFrom(h, seen, frontier) ==
  IF frontier = {} THEN seen
  ELSE LET new == (UNION {RefsIn(h[a]) : a \in frontier}) \ seen
       IN ReachFrom(h, seen \cup new, new)

\* every address reachable from address a, a included
Reach(h, a) == ReachFrom(h, {a}, {a})

\* the addresses of S in ascending order
RECURSIVE Ascending(_)
Ascending(S) ==
  IF S = {} THEN <<>>
  ELSE LET m == CHOOSE x \in S : \A y \in S : x <= y
       IN <<m>> \o Ascending(S \ {m})

\* structuredClone throws a DataCloneError on a function anywhere in the value
CloneThrows(h, a) ==
  \E x \in Reach(h, a) : \E p \in 1..Len(h[x].vs) : h[x].vs[p].t = "function"

\* a plausible slip: a shallow copy, nested values still shared
StructuredCloneShallow(h, a) ==
  [heap |-> Append(h, h[a]), clone |-> Len(h) + 1]

\* a plausible slip: JSON.parse(JSON.stringify(obj)) for structuredClone, which
\* drops a key whose value is undefined and turns an undefined array element
\* into null
StructuredCloneJSON(h, a) ==
  LET old == Ascending(Reach(h, a))
      NewAddr(x) == Len(h) + (CHOOSE p \in 1..Len(old) : old[p] = x)
      Redirect(val) == IF val.t = "ref" THEN Ref(NewAddr(val.v)) ELSE val
      Kept(cell) == Ascending({p \in 1..Len(cell.vs) : cell.vs[p].t # "undefined"})
      Copy(cell) ==
        IF cell.kind = "array"
        THEN [cell EXCEPT !.vs = [p \in 1..Len(cell.vs) |->
                                    IF cell.vs[p].t = "undefined" THEN Null
                                    ELSE Redirect(cell.vs[p])]]
        ELSE ObjectCell([p \in 1..Len(Kept(cell)) |-> cell.ks[Kept(cell)[p]]],
                        [p \in 1..Len(Kept(cell)) |-> Redirect(cell.vs[Kept(cell)[p]])])
  IN [heap |-> h \o [p \in 1..Len(old) |-> Copy(h[old[p]])], clone |-> NewAddr(a)]

\* structuredClone(obj) (index.ts 391) of the object at address a, for a value
\* that does not throw: every reachable cell is copied to a fresh address and
\* every reference inside the copies is redirected to the copy, so sharing inside
\* the value is kept and nothing is shared with the original
StructuredClone(h, a) ==
  LET old == Ascending(Reach(h, a))
      NewAddr(x) == Len(h) + (CHOOSE p \in 1..Len(old) : old[p] = x)
      Redirect(val) == IF val.t = "ref" THEN Ref(NewAddr(val.v)) ELSE val
      Copy(cell) == [cell EXCEPT !.vs = [p \in 1..Len(cell.vs) |-> Redirect(cell.vs[p])]]
  IN [heap |-> h \o [p \in 1..Len(old) |-> Copy(h[old[p]])], clone |-> NewAddr(a)]

\* result.map((obj) => structuredClone(obj)) inside the try (index.ts 390-392):
\* ok is FALSE when some clone threw, and then the mapped array is discarded
RECURSIVE CloneEach(_, _, _, _)
CloneEach(h, objs, p, out) ==
  IF p > Len(objs) THEN [ok |-> TRUE, heap |-> h, out |-> out]
  ELSE IF CloneThrows(h, objs[p]) THEN [ok |-> FALSE, heap |-> h, out |-> out]
  ELSE LET c == StructuredClone(h, objs[p])
       IN CloneEach(c.heap, objs, p + 1, Append(out, c.clone))

\* ------------------------------------------------------------------ inputs

\* the keys of a template by position of declaration: a later key that sorts
\* before an earlier one, and an array-index key
KeyNames == <<"b", "1", "a", "0">>

\* what the caller holds before the call: the array [1, 2, 3] and the object
\* {b: 1, n: <that array>}, as in the tests' nested literals, and an array
\* [1, 2] to hand to one
CallerHeap == << ArrayCell(<<Num(1), Num(2), Num(3)>>),
                 ObjectCell(<<"b", "n">>, <<Num(1), Ref(1)>>),
                 ArrayCell(<<Num(1), Num(2)>>) >>

\* [1, ..., n]
Nums(n) == [p \in 1..n |-> Num(p)]

\* candidate lists with the values generate must not mistake for the marker,
\* and the marker itself used directly
SpecialLists ==
  { <<Fn("arrow"), Fn("plain"), Undefined>>,
    <<Null, KeyValueUndefined, Str(1)>>,
    <<Fn("subclass"), Fn("factory"), Fn("thrower")>> }

\* the tests' some([1, 2]) (index.test.ts 19) and its prefixes; longer inputs of
\* arrayCombinate are covered by the direct calls
SomeInputs == { <<>>, <<Num(1)>>, <<Num(1), Num(2)>> }

LiteralChoices == {Num(6), Ref(1), Ref(2)}

\* the README's custom Combination: "Wow!", "WOW!", "wow!"
CustomValues == <<Str(1), Str(2), Str(3)>>

CombinationChoices ==
  {One(Nums(n)) : n \in 0..MaxCand}
  \cup {One(vs) : vs \in SpecialLists}
  \cup {Optional(Num(5)), Optional(Ref(1)), Optional(Undefined), Optional(Fn("subclass"))}
  \cup {Some(vs) : vs \in SomeInputs}
  \cup {OneOf(3)}
  \cup {CombinationOfThunk(CustomValues), CombinationOfArray(CustomValues)}

FieldChoices ==
  {LiteralField("", v) : v \in LiteralChoices}
  \cup {CombinationField("", c) : c \in CombinationChoices}

Templates ==
  UNION { { [p \in 1..n |-> [fs[p] EXCEPT !.key = KeyNames[p]]] : fs \in [1..n -> FieldChoices] }
          : n \in 0..MaxFields }

\* templates for the order of the entries: the same fields under keys declared
\* out of alphabetical order, with an array-index key after another key, and
\* with two array-index keys in descending order
KeyOrders == {<<"b", "a", "1", "0">>, <<"b", "1", "a", "0">>, <<"1", "0", "b", "a">>}

KeyOrderChoices ==
  {LiteralField("", Num(6)), CombinationField("", One(<<Num(1), Num(2)>>)),
   CombinationField("", Optional(Num(5))), CombinationField("", Some(<<Num(1)>>))}

KeyOrderTemplates ==
  UNION { { [p \in 1..n |-> [fs[p] EXCEPT !.key = keys[p]]] :
              fs \in [1..n -> KeyOrderChoices], keys \in KeyOrders }
          : n \in 0..MaxFields }

\* templates for what two calls share: literals and candidates that are arrays
\* and objects of the caller, next to candidates that some builds
SharedChoices ==
  {LiteralField("", Ref(2)), LiteralField("", Num(6)),
   CombinationField("", Some(<<Num(1)>>)), CombinationField("", Optional(Ref(1))),
   CombinationField("", One(<<Num(1), Num(2)>>)), CombinationField("", OneOf(3))}

SharedTemplates ==
  UNION { { [p \in 1..n |-> [fs[p] EXCEPT !.key = KeyNames[p]]] : fs \in [1..n -> SharedChoices] }
          : n \in 0..MaxFields }

\* input arrays of a direct arrayCombinate call, repeated elements included
ArrayInputs == UNION { [1..n -> {Num(1), Num(2), Num(3)}] : n \in 0..MaxArr }

\* ------------------------------------------------------------------ state

VARIABLES
  op,                  \* the function the caller calls
  object,              \* generate's parameter: the template
  array,               \* arrayCombinate's parameter
  hasStructuredClone,  \* what `typeof structuredClone === "function"` gave, once read
  heap,                \* the arrays and objects that exist
  pc,                  \* where the call is
  baseObject,          \* address of the base object, 0 before it exists
  objectCombinations,  \* [key, values] per Combination field
  entry,               \* entries of the template already reduced
  combos, scratch,     \* addresses of the combos
  i, j, k,             \* the loop counters of generate
  result,              \* the array generate or generate.mutable returned (addresses)
  resultStack,         \* the array of arrays arrayCombinate returned
  errors,              \* console.error calls made
  mutated,             \* the address the caller mutated afterwards, 0 if none
  log,                 \* generate's parameter log
  logs,                \* what console.log has printed
  nest,                \* the generate.nest(sub) the template at hand was built with
  first,               \* what the caller keeps of an earlier generate(object, log)
  viaIllegal,          \* the template at hand has its Combinations wrapped in illegal
  invoked              \* the keys whose producer the call at hand has invoked, in order

vars == <<op, object, array, hasStructuredClone, heap, pc, baseObject,
          objectCombinations, entry, combos, scratch, i, j, k, result, resultStack,
          errors, mutated, log, logs, nest, first, viaIllegal, invoked>>

input == <<op, object, array, log>>

caller == <<nest, first, viaIllegal>>

\* no generate.nest in the template, no earlier call
NoNest == [key |-> "", object |-> <<>>, result |-> <<>>]
NoCall == [called |-> FALSE, log |-> FALSE, result |-> <<>>]

env == <<hasStructuredClone>>

Init ==
  /\ op \in {"generate", "mutable", "arrayCombinate"}
  /\ IF op = "arrayCombinate"
     THEN object = <<>> /\ array \in ArrayInputs
     ELSE object \in Templates /\ array = <<>>
  /\ hasStructuredClone = "unread"
  /\ heap = CallerHeap
  /\ pc = "call"
  /\ baseObject = 0
  /\ objectCombinations = <<>>
  /\ entry = 0
  /\ combos = <<>>
  /\ scratch = <<>>
  /\ i = 0 /\ j = 0 /\ k = 0
  /\ result = <<>>
  /\ resultStack = <<>>
  /\ errors = 0
  /\ mutated = 0
  /\ log = FALSE
  /\ logs = <<>>
  /\ nest = NoNest
  /\ first = NoCall
  /\ viaIllegal = FALSE
  /\ invoked = <<>>

\* ------------------------------------------------------------------ arrayCombinate call

\* arrayCombinate(array), called directly (index.ts 95-112)
CallArrayCombinate ==
  /\ pc = "call" /\ op = "arrayCombinate"
  /\ resultStack' = ArrayCombinate(array)
  /\ pc' = "done"
  /\ UNCHANGED <<input, caller, logs, invoked, env, heap, baseObject, objectCombinations, entry, combos, scratch,
                 i, j, k, result, errors, mutated>>

\* ------------------------------------------------------------------ generate

\* const baseObject = makeBaseObject(...) (index.ts 318-321)
MakeBase ==
  /\ pc = "call" /\ op \in {"generate", "mutable", "nest"}
  /\ heap' = Append(heap, MakeBaseObject(object))
  /\ baseObject' = Len(heap) + 1
  /\ pc' = "reduce"
  /\ UNCHANGED <<input, caller, logs, invoked, env, objectCombinations, entry, combos, scratch, i, j, k, result,
                 resultStack, errors, mutated>>

\* a plausible slip: the producer called once to look at the candidates and once
\* more to push them
ReduceCallbackCallsTwice(h, e) ==
  LET looked == ProducerValues(e.comb, h)
      pv == ProducerValues(e.comb, looked.heap)
  IN [pushed |-> [key |-> e.key, values |-> pv.values], heap |-> pv.heap,
      invoked |-> <<e.key, e.key>>]

\* the callback of the reduce for an entry e that holds a Combination
\* (index.ts 325-327): what it pushes, the heap after the producer's call, and
\* the producer calls it made
ReduceCallback(h, e) ==
  LET pv == ProducerValues(e.comb, h)
  IN [pushed |-> [key |-> e.key, values |-> pv.values], heap |-> pv.heap,
      invoked |-> <<e.key>>]

\* one round of Object.entries(object).reduce (index.ts 323-331): a Combination's
\* producer is called and [k, v.values()] pushed; a literal is passed over.  A
\* values that cannot be called throws, and generate ends with that TypeError
ReduceEntry ==
  /\ pc = "reduce" /\ entry < Len(OwnEntries(object))
  /\ LET e == OwnEntries(object)[entry + 1]
     IN IF ~IsCombination(e)
        THEN UNCHANGED <<objectCombinations, heap, pc, invoked>>
        ELSE IF ~ValuesIsCallable(e.comb)
        THEN pc' = "threw" /\ UNCHANGED <<objectCombinations, heap, invoked>>
        ELSE LET called == ReduceCallback(heap, e)
             IN /\ objectCombinations' = Append(objectCombinations, called.pushed)
                /\ heap' = called.heap
                /\ invoked' = invoked \o called.invoked
                /\ pc' = pc
  /\ entry' = entry + 1
  /\ UNCHANGED <<input, caller, logs, env, baseObject, combos, scratch, i, j, k, result,
                 resultStack, errors, mutated>>

\* the reduce of the second console.log (index.ts 336-340): obj[k] = values for
\* each Combination field.  The model keeps the candidate sequences outside the
\* heap, so obj[k] refers to a cell that shows their elements.
RECURSIVE LogReduce(_, _, _, _)
LogReduce(h, obj, combinations, n) ==
  IF n > Len(combinations) THEN h
  ELSE LET shown == Append(h, ArrayCell(combinations[n].values))
       IN LogReduce([shown EXCEPT ![obj] = SetKey(@, combinations[n].key, Ref(Len(shown)))],
                    obj, combinations, n + 1)

\* a plausible slip: the reduce started from baseObject instead of a fresh {}
LogTemplateIntoBase(h, base, combinations) ==
  [heap |-> LogReduce(h, base, combinations, 1),
   printed |-> <<h[base], LogReduce(h, base, combinations, 1)[base]>>]

\* the two console.log calls (index.ts 334-341): the heap afterwards, with the
\* object the reduce built from a fresh {} on it, and what was printed
LogTemplate(h, base, combinations) ==
  LET obj == Len(h) + 1
      after == LogReduce(Append(h, EmptyObject), obj, combinations, 1)
  IN [heap |-> after, printed |-> <<h[base], after[obj]>>]

\* `if (log)` taken (index.ts 333-342)
LogCombinations ==
  /\ pc = "reduce" /\ entry = Len(OwnEntries(object)) /\ log
  /\ LET l == LogTemplate(heap, baseObject, objectCombinations)
     IN /\ heap' = l.heap
        /\ logs' = logs \o l.printed
  /\ pc' = "logged"
  /\ UNCHANGED <<input, caller, invoked, env, baseObject, objectCombinations, entry, combos,
                 scratch, i, j, k, result, resultStack, errors, mutated>>

\* let combos = [] and the first `i = 0` (index.ts 344, 355)
StartLoop ==
  /\ \/ pc = "reduce" /\ entry = Len(OwnEntries(object)) /\ ~log
     \/ pc = "logged"
  /\ combos' = <<>> /\ scratch' = <<>>
  /\ i' = 0 /\ j' = 0 /\ k' = 0
  /\ pc' = "loop"
  /\ UNCHANGED <<input, caller, logs, invoked, env, heap, baseObject, objectCombinations, entry, result, resultStack,
                 errors, mutated>>

\* the combo built by one round of the innermost loop (index.ts 361-364)
NewCombo(h, base, accumulated, key, value) ==
  LET combo == ObjectAssign(h[base], accumulated)
  IN IF ~IsKeyValueUndefined(value) THEN SetKey(combo, key, value) ELSE combo

\* a plausible slip: generate hands out deep copies, as generate.mutable does
CreateComboCloned(h, base, accumulated, key, value) ==
  LET made == Append(h, NewCombo(h, base, accumulated, key, value))
  IN IF CloneThrows(made, Len(made)) THEN [heap |-> made, combo |-> Len(made)]
     ELSE [heap |-> StructuredClone(made, Len(made)).heap,
           combo |-> StructuredClone(made, Len(made)).clone]

\* a plausible slip: Object.assign(baseObject, combos[k]), without the new
\* object as the target
CreateComboIntoBase(h, base, accumulated, key, value) ==
  [heap |-> [h EXCEPT ![base] = NewCombo(h, base, accumulated, key, value)], combo |-> base]

\* a plausible slip: a combo equal to an object the call already made is not
\* made again, the object at hand is pushed
CreateComboReusing(h, base, accumulated, key, value) ==
  LET combo == NewCombo(h, base, accumulated, key, value)
      made == {a \in base..Len(h) : h[a] = combo}
  IN IF made # {} THEN [heap |-> h, combo |-> CHOOSE a \in made : TRUE]
     ELSE [heap |-> Append(h, combo), combo |-> Len(h) + 1]

\* the body of the innermost loop (index.ts 361-365): the heap with the new
\* combo on it, and the combo's address, which scratch.push receives
CreateCombo(h, base, accumulated, key, value) ==
  [heap |-> Append(h, NewCombo(h, base, accumulated, key, value)), combo |-> Len(h) + 1]

\* one round of the innermost loop (index.ts 360-366)
Expand ==
  /\ pc = "loop" /\ i < Len(objectCombinations)
  /\ j < Len(objectCombinations[i + 1].values)
  /\ k < ComboCount(combos)
  /\ LET key == objectCombinations[i + 1].key
         value == objectCombinations[i + 1].values[j + 1]
         accumulated == IF k < Len(combos) THEN heap[combos[k + 1]] ELSE EmptyObject
         made == CreateCombo(heap, baseObject, accumulated, key, value)
     IN /\ heap' = made.heap
        /\ scratch' = Append(scratch, made.combo)
  /\ k' = k + 1
  /\ UNCHANGED <<input, caller, logs, invoked, env, pc, baseObject, objectCombinations, entry, combos, i, j, result,
                 resultStack, errors, mutated>>

\* the innermost loop ends, j++ (index.ts 358, 360)
NextValue ==
  /\ pc = "loop" /\ i < Len(objectCombinations)
  /\ j < Len(objectCombinations[i + 1].values)
  /\ k >= ComboCount(combos)
  /\ j' = j + 1 /\ k' = 0
  /\ UNCHANGED <<input, caller, logs, invoked, env, heap, pc, baseObject, objectCombinations, entry, combos, scratch,
                 i, result, resultStack, errors, mutated>>

\* the loop over the values ends: combos = scratch, i++ (index.ts 355-357, 368)
NextKey ==
  /\ pc = "loop" /\ i < Len(objectCombinations)
  /\ j >= Len(objectCombinations[i + 1].values)
  /\ combos' = scratch /\ scratch' = <<>>
  /\ i' = i + 1 /\ j' = 0 /\ k' = 0
  /\ UNCHANGED <<input, caller, logs, invoked, env, heap, pc, baseObject, objectCombinations, entry, result,
                 resultStack, errors, mutated>>

\* return combos (index.ts 371); generate.mutable (index.ts 388) and
\* generate.nest (index.ts 434) go on with it
Return ==
  /\ pc = "loop" /\ i >= Len(objectCombinations)
  /\ result' = combos
  /\ pc' = CASE op = "mutable" -> "clone"
            [] op = "nest" -> "nested"
            [] OTHER -> "done"
  /\ UNCHANGED <<input, caller, logs, invoked, env, heap, baseObject, objectCombinations, entry, combos, scratch,
                 i, j, k, resultStack, errors, mutated>>

\* ------------------------------------------------------------------ generate.mutable

\* `typeof structuredClone` (index.ts 389) is a fact of the environment, fixed
\* but unknown to the call until this line reads it.

\* a plausible slip: the try/catch put inside the map callback, so that every
\* result that can be cloned is, and the others are handed out as they are
RECURSIVE CloneEachOrKeep(_, _, _, _)
CloneEachOrKeep(h, objs, p, out) ==
  IF p > Len(objs) THEN [heap |-> h, out |-> out]
  ELSE IF CloneThrows(h, objs[p]) THEN CloneEachOrKeep(h, objs, p + 1, Append(out, objs[p]))
  ELSE LET c == StructuredClone(h, objs[p])
       IN CloneEachOrKeep(c.heap, objs, p + 1, Append(out, c.clone))

GenerateMutablePerElement(h, uncloned, available) ==
  IF available
  THEN [heap |-> CloneEachOrKeep(h, uncloned, 1, <<>>).heap,
        value |-> CloneEachOrKeep(h, uncloned, 1, <<>>).out,
        errors |-> IF \E p \in 1..Len(uncloned) : CloneThrows(h, uncloned[p]) THEN 1 ELSE 0]
  ELSE [heap |-> h, value |-> uncloned, errors |-> 1]

\* generate.mutable after its call of generate (index.ts 389-401): uncloned is
\* what generate returned, available what `typeof structuredClone === "function"`
\* gave.  value is the array returned, errors the console.error calls made.
GenerateMutable(h, uncloned, available) ==
  IF available
  THEN LET c == CloneEach(h, uncloned, 1, <<>>)
       IN IF c.ok THEN [heap |-> c.heap, value |-> c.out, errors |-> 0]
          ELSE [heap |-> c.heap, value |-> uncloned, errors |-> 1]
  ELSE [heap |-> h, value |-> uncloned, errors |-> 1]

\* every result cloned (index.ts 389-391)
CloneSucceeds ==
  /\ pc = "clone"
  /\ hasStructuredClone' = "function"
  /\ LET m == GenerateMutable(heap, result, TRUE)
     IN /\ m.errors = 0
        /\ heap' = m.heap
        /\ result' = m.value
  /\ pc' = "done"
  /\ UNCHANGED <<input, caller, logs, invoked, baseObject, objectCombinations, entry, combos, scratch, i, j, k,
                 resultStack, errors, mutated>>

\* a clone threw: the error is reported and the uncloned result returned
\* (index.ts 392-395)
CloneFails ==
  /\ pc = "clone"
  /\ hasStructuredClone' = "function"
  /\ LET m == GenerateMutable(heap, result, TRUE)
     IN /\ m.errors > 0
        /\ heap' = m.heap
        /\ result' = m.value
        /\ errors' = errors + m.errors
  /\ pc' = "done"
  /\ UNCHANGED <<input, caller, logs, invoked, baseObject, objectCombinations, entry, combos, scratch, i, j, k,
                 resultStack, mutated>>

\* no structuredClone in this environment (index.ts 397-401)
CloneUnavailable ==
  /\ pc = "clone"
  /\ hasStructuredClone' = "undefined"
  /\ LET m == GenerateMutable(heap, result, FALSE)
     IN /\ heap' = m.heap
        /\ result' = m.value
        /\ errors' = errors + m.errors
  /\ pc' = "done"
  /\ UNCHANGED <<input, caller, logs, invoked, baseObject, objectCombinations, entry, combos, scratch,
                 i, j, k, resultStack, mutated>>

\* ------------------------------------------------------------------ the caller afterwards

\* dataInstance.array.push(4) on an array, dataInstance.a.b++ on an object
\* (the tests' mutations, part_005 105-106)
MutateCell(cell) ==
  IF cell.kind = "array" THEN [cell EXCEPT !.vs = Append(@, Num(4))]
  ELSE SetKey(cell, "b", Num(Get(cell, "b").v + 1))

\* the caller mutates one array or object nested in one of the results
Mutate ==
  /\ pc = "done" /\ op \in {"generate", "mutable"}
  /\ \E idx \in 1..Len(result) :
       \E a \in Reach(heap, result[idx]) \ {result[idx]} :
         /\ heap' = [heap EXCEPT ![a] = MutateCell(@)]
         /\ mutated' = a
  /\ pc' = "mutated"
  /\ UNCHANGED <<input, caller, logs, invoked, env, baseObject, objectCombinations, entry, combos, scratch, i, j, k,
                 result, resultStack, errors>>

\* the caller assigns a top-level field of one returned result, result.t = 9,
\* or deletes one
AssignTopLevel ==
  /\ pc = "done" /\ op = "generate" /\ ~first.called /\ mutated = 0
  /\ \E idx \in 1..Len(result) :
       /\ \/ heap' = [heap EXCEPT ![result[idx]] = SetKey(@, "t", Num(9))]
          \/ \E p \in 1..Len(heap[result[idx]].ks) :
               heap' = [heap EXCEPT ![result[idx]] = DeleteKey(@, heap[result[idx]].ks[p])]
       /\ mutated' = result[idx]
  /\ UNCHANGED <<input, caller, logs, invoked, env, pc, baseObject, objectCombinations, entry,
                 combos, scratch, i, j, k, result, resultStack, errors>>

\* ------------------------------------------------------------------ generate.nest

\* generate.nest(object, log) (index.ts 431-434) is one(generate(object, log)):
\* the Combination whose producer returns the array the inner call returned
NestCombination(generated) == One([p \in 1..Len(generated) |-> Ref(generated[p])])

\* the other field of the template the nest stands in: x: one([]), x: one([1, 2])
\* as in the spec's example, or a literal
NestCompanions ==
  {CombinationField("", One(Nums(n))) : n \in {0, MaxCand}} \cup {LiteralField("", Num(6))}

\* the keys of those templates by position of declaration: no array index among
\* them, so the fields are processed as declared
NestKeyNames == SelectSeq(KeyNames, LAMBDA key : ~IsArrayIndex(key))

\* the templates a caller writes around generate.nest(sub): the nest field alone,
\* or after or before one other field; each with the position of the nest field
NestTemplates(generated) ==
  LET y == CombinationField("", NestCombination(generated))
      Keyed(fs) == [p \in 1..Len(fs) |-> [fs[p] EXCEPT !.key = NestKeyNames[p]]]
  IN {[template |-> Keyed(<<y>>), at |-> 1]}
     \cup {[template |-> Keyed(<<x, y>>), at |-> 2] : x \in NestCompanions}
     \cup {[template |-> Keyed(<<y, x>>), at |-> 1] : x \in NestCompanions}

\* generate.nest has returned its Combination, the template literal around it is
\* complete and the caller calls generate with it
CallWithNest ==
  /\ pc = "nested" /\ op = "nest"
  /\ \E outer \in NestTemplates(result) :
       /\ object' = outer.template
       /\ nest' = [key |-> NestKeyNames[outer.at], object |-> object, result |-> result]
  /\ op' = "generate"
  /\ pc' = "call"
  /\ baseObject' = 0
  /\ objectCombinations' = <<>>
  /\ entry' = 0
  /\ combos' = <<>> /\ scratch' = <<>>
  /\ i' = 0 /\ j' = 0 /\ k' = 0
  /\ result' = <<>>
  /\ invoked' = <<>>
  /\ UNCHANGED <<array, log, logs, first, viaIllegal, env, heap, resultStack, errors, mutated>>

\* ------------------------------------------------------------------ a second call

\* the caller keeps what generate(object, log) returned and calls generate again
\* with the same template, with or without log
CallAgain ==
  /\ pc = "done" /\ op = "generate" /\ ~first.called
  /\ first' = [called |-> TRUE, log |-> log, result |-> result]
  /\ log' \in BOOLEAN
  /\ pc' = "call"
  /\ baseObject' = 0
  /\ objectCombinations' = <<>>
  /\ entry' = 0
  /\ combos' = <<>> /\ scratch' = <<>>
  /\ i' = 0 /\ j' = 0 /\ k' = 0
  /\ result' = <<>>
  /\ invoked' = <<>>
  /\ UNCHANGED <<op, object, array, nest, viaIllegal, logs, env, heap, resultStack, errors,
                 mutated>>

\* the caller, having mutated something nested in a result of generate(object),
\* calls generate again with the same template
CallAfterMutation ==
  /\ pc = "mutated" /\ op = "generate" /\ ~first.called
  /\ first' = [called |-> TRUE, log |-> log, result |-> result]
  /\ pc' = "call"
  /\ baseObject' = 0
  /\ objectCombinations' = <<>>
  /\ entry' = 0
  /\ combos' = <<>> /\ scratch' = <<>>
  /\ i' = 0 /\ j' = 0 /\ k' = 0
  /\ result' = <<>>
  /\ invoked' = <<>>
  /\ UNCHANGED <<input, nest, viaIllegal, logs, env, heap, resultStack, errors, mutated>>

\* the caller keeps what generate(object) returned and calls generate with the
\* same template written with every Combination wrapped in illegal
CallAgainIllegal ==
  /\ pc = "done" /\ op = "generate" /\ ~first.called
  /\ first' = [called |-> TRUE, log |-> log, result |-> result]
  /\ object' = [p \in 1..Len(object) |->
                  IF IsCombination(object[p])
                  THEN [object[p] EXCEPT !.comb = Illegal(object[p].comb)]
                  ELSE object[p]]
  /\ viaIllegal' = TRUE
  /\ pc' = "call"
  /\ baseObject' = 0
  /\ objectCombinations' = <<>>
  /\ entry' = 0
  /\ combos' = <<>> /\ scratch' = <<>>
  /\ i' = 0 /\ j' = 0 /\ k' = 0
  /\ result' = <<>>
  /\ invoked' = <<>>
  /\ UNCHANGED <<op, array, log, nest, logs, env, heap, resultStack, errors, mutated>>

Next ==
  \/ CallArrayCombinate
  \/ MakeBase
  \/ ReduceEntry
  \/ StartLoop
  \/ Expand
  \/ NextValue
  \/ NextKey
  \/ Return
  \/ CloneSucceeds
  \/ CloneFails
  \/ CloneUnavailable
  \/ Mutate

Spec == Init /\ [][Next]_vars

\* a session in which the caller builds a template around generate.nest(sub) and
\* calls generate with it: the inner call runs first, while the template is built
InitNest ==
  /\ op = "nest"
  /\ object \in Templates /\ array = <<>>
  /\ hasStructuredClone = "unread"
  /\ heap = CallerHeap
  /\ pc = "call"
  /\ baseObject = 0
  /\ objectCombinations = <<>>
  /\ entry = 0
  /\ combos = <<>>
  /\ scratch = <<>>
  /\ i = 0 /\ j = 0 /\ k = 0
  /\ result = <<>>
  /\ resultStack = <<>>
  /\ errors = 0
  /\ mutated = 0
  /\ log = FALSE
  /\ logs = <<>>
  /\ nest = NoNest
  /\ first = NoCall
  /\ viaIllegal = FALSE
  /\ invoked = <<>>

NextNest ==
  \/ MakeBase
  \/ ReduceEntry
  \/ StartLoop
  \/ Expand
  \/ NextValue
  \/ NextKey
  \/ Return
  \/ CallWithNest

SpecNest == InitNest /\ [][NextNest]_vars

\* a session in which the caller calls generate twice with one template, each
\* time with or without log
InitTwice ==
  /\ op = "generate"
  /\ object \in Templates /\ array = <<>>
  /\ hasStructuredClone = "unread"
  /\ heap = CallerHeap
  /\ pc = "call"
  /\ baseObject = 0
  /\ objectCombinations = <<>>
  /\ entry = 0
  /\ combos = <<>>
  /\ scratch = <<>>
  /\ i = 0 /\ j = 0 /\ k = 0
  /\ result = <<>>
  /\ resultStack = <<>>
  /\ errors = 0
  /\ mutated = 0
  /\ log \in BOOLEAN
  /\ logs = <<>>
  /\ nest = NoNest
  /\ first = NoCall
  /\ viaIllegal = FALSE
  /\ invoked = <<>>

NextTwice ==
  \/ MakeBase
  \/ ReduceEntry
  \/ LogCombinations
  \/ StartLoop
  \/ Expand
  \/ NextValue
  \/ NextKey
  \/ Return
  \/ CallAgain

SpecTwice == InitTwice /\ [][NextTwice]_vars

\* a session in which the caller calls generate with a template and then with
\* the same template written with illegal
InitIllegal == InitTwice /\ log = FALSE

NextIllegal ==
  \/ MakeBase
  \/ ReduceEntry
  \/ StartLoop
  \/ Expand
  \/ NextValue
  \/ NextKey
  \/ Return
  \/ CallAgainIllegal

SpecIllegal == InitIllegal /\ [][NextIllegal]_vars

\* one generate call on a template out of templates
InitGenerate(templates) ==
  /\ op = "generate"
  /\ object \in templates
  /\ array = <<>>
  /\ log = FALSE
  /\ logs = <<>>
  /\ nest = NoNest
  /\ first = NoCall
  /\ viaIllegal = FALSE
  /\ invoked = <<>>
  /\ hasStructuredClone = "unread"
  /\ heap = CallerHeap
  /\ pc = "call"
  /\ baseObject = 0
  /\ objectCombinations = <<>>
  /\ entry = 0
  /\ combos = <<>> /\ scratch = <<>>
  /\ i = 0 /\ j = 0 /\ k = 0
  /\ result = <<>>
  /\ resultStack = <<>>
  /\ errors = 0
  /\ mutated = 0

\* one generate call on a template whose keys come in one of the KeyOrders
InitKeys == InitGenerate(KeyOrderTemplates)

NextKeys ==
  \/ MakeBase
  \/ ReduceEntry
  \/ StartLoop
  \/ Expand
  \/ NextValue
  \/ NextKey
  \/ Return

SpecKeys == InitKeys /\ [][NextKeys]_vars

\* a session in which the caller may write to a result's top level between two
\* generate calls on the same template
NextAssign ==
  \/ MakeBase
  \/ ReduceEntry
  \/ LogCombinations
  \/ StartLoop
  \/ Expand
  \/ NextValue
  \/ NextKey
  \/ Return
  \/ AssignTopLevel
  \/ CallAgain

SpecAssign == InitKeys /\ [][NextAssign]_vars

\* a session of two generate calls on the same template, the caller mutating
\* something nested in a result after the first call or after the second
InitShared == InitGenerate(SharedTemplates)

NextShared ==
  \/ MakeBase
  \/ ReduceEntry
  \/ StartLoop
  \/ Expand
  \/ NextValue
  \/ NextKey
  \/ Return
  \/ Mutate
  \/ CallAgain
  \/ LogCombinations
  \/ CallAfterMutation

SpecShared == InitShared /\ [][NextShared]_vars

\* ------------------------------------------------------------------ reading a finished call

\* the call has returned
Finished == pc \in {"done", "mutated"}

\* the result object at 1-based position idx of the returned array
ResultCell(idx) == heap[result[idx]]

\* the template's literal fields and its Combination fields
LiteralFields == {object[p] : p \in {q \in 1..Len(object) : ~object[q].isComb}}
CombinationFields == {object[p] : p \in {q \in 1..Len(object) : object[q].isComb}}

\* number of Combination fields processed, and the length of the n-th one's
\* candidate sequence
FieldCount == Len(objectCombinations)
CandidateCount(n) == Len(objectCombinations[n].values)

\* every Combination field has at least one candidate, and there is at least one
AllNonEmpty == FieldCount >= 1 /\ \A n \in 1..FieldCount : CandidateCount(n) > 0

\* L1 * ... * Ln
RECURSIVE ProductUpTo(_)
ProductUpTo(n) == IF n = 0 THEN 1 ELSE ProductUpTo(n - 1) * CandidateCount(n)

\* the candidate of the n-th processed field that the result at 0-based index
\* idx0 is built from: number (idx0 div (L1*...*L(n-1))) mod Ln
ChosenCandidate(idx0, n) ==
  objectCombinations[n].values[((idx0 \div ProductUpTo(n - 1)) % CandidateCount(n)) + 1]

\* the addresses reachable from the template: its literal arrays and objects and
\* those among the values handed to its combinators
TemplateRoots ==
  {e.value.v : e \in {l \in LiteralFields : l.value.t = "ref"}}
  \cup UNION { {e.comb.args[p].v : p \in {q \in 1..Len(e.comb.args) : e.comb.args[q].t = "ref"}}
               : e \in CombinationFields }
TemplateReach == UNION {Reach(heap, a) : a \in TemplateRoots}

\* ------------------------------------------------------------------ claims

C2_CountIsProduct ==
  (Finished /\ op = "generate" /\ FieldCount >= 1) =>
    Len(result) = ProductUpTo(FieldCount)

\* C3 as stated: a template without any Combination field yields exactly one
\* result, holding the literal fields unchanged.
C3_LiteralOnlySingleResult ==
  (Finished /\ op = "generate" /\ CombinationFields = {}) =>
    /\ Len(result) = 1
    /\ \A e \in LiteralFields :
         HasKey(ResultCell(1), e.key) /\ Get(ResultCell(1), e.key) = e.value
    /\ Len(ResultCell(1).ks) = Len(object)

\* C4 as stated: in every result, a Combination field is a key exactly when the
\* candidate chosen for it is not the omission marker KeyValueUndefined, and then
\* its value is that candidate.
C4_KeyIffNotMarker ==
  (Finished /\ op = "generate" /\ AllNonEmpty) =>
    \A idx \in 1..Len(result) : \A n \in 1..FieldCount :
      LET c == ChosenCandidate(idx - 1, n)
          key == objectCombinations[n].key
      IN /\ HasKey(ResultCell(idx), key) <=> (c # KeyValueUndefined)
         /\ HasKey(ResultCell(idx), key) => Get(ResultCell(idx), key) = c

\* C5 as stated: the test generate applies to the candidate at hand takes it for
\* the omission marker only when it is KeyValueUndefined itself; no other value,
\* function and class values included, is mistaken for it.
C5_MarkerOnlyItself ==
  (pc = "loop" /\ i < FieldCount /\ j < CandidateCount(i + 1)) =>
    LET value == objectCombinations[i + 1].values[j + 1]
    IN IsKeyValueUndefined(value) <=> (value = KeyValueUndefined)

\* C6: every result of generate holds every literal field of the template with
\* exactly the template's value, so literal fields agree across all results.
C6_LiteralsKept ==
  (Finished /\ op = "generate") =>
    \A idx \in 1..Len(result) : \A e \in LiteralFields :
      HasKey(ResultCell(idx), e.key) /\ Get(ResultCell(idx), e.key) = e.value

\* C6 witness: a call with a literal field returned at least two results
C6_Witness ==
  pc = "done" /\ op = "generate" /\ LiteralFields # {} /\ Len(result) >= 2

\* the elements of array at the positions whose bit is set in i, ascending
BitmaskSubsequence(arr, bits) ==
  LET positions == Ascending({q \in 0..(Len(arr) - 1) : (bits \div (2 ^ q)) % 2 = 1})
  IN [p \in 1..Len(positions) |-> arr[positions[p] + 1]]

\* C7: arrayCombinate on n elements returns 2^n sub-sequences, entry i holding
\* exactly the elements at the positions whose bit is set in i, in ascending
\* position order; the empty one is there once, first; [] gives [[]] and
\* [1,2,3] gives [[],[1],[2],[1,2],[3],[1,3],[2,3],[1,2,3]].
C7_BitmaskEnumeration ==
  (pc = "done" /\ op = "arrayCombinate") =>
    /\ Len(resultStack) = 2 ^ Len(array)
    /\ \A n \in 0..(Len(resultStack) - 1) :
         resultStack[n + 1] = BitmaskSubsequence(array, n)
    /\ Cardinality({n \in 1..Len(resultStack) : resultStack[n] = <<>>}) = 1
    /\ resultStack[1] = <<>>
    /\ (array = <<>> => resultStack = << <<>> >>)
    /\ (array = Nums(3) =>
          resultStack = << <<>>, <<Num(1)>>, <<Num(2)>>, <<Num(1), Num(2)>>, <<Num(3)>>,
                           <<Num(1), Num(3)>>, <<Num(2), Num(3)>>, <<Num(1), Num(2), Num(3)>> >>)

\* C7 witness: arrayCombinate([1, 2, 3]) has returned, entry 5 being [1, 3]
C7_Witness ==
  /\ pc = "done" /\ op = "arrayCombinate" /\ array = Nums(3)
  /\ Len(resultStack) = 8 /\ resultStack[6] = <<Num(1), Num(3)>>

\* C8 as stated: for every input, no two entries of arrayCombinate's result are
\* equal as sequences of values.
C8_AllDistinct ==
  (pc = "done" /\ op = "arrayCombinate") =>
    \A a, b \in 1..Len(resultStack) : a # b => resultStack[a] # resultStack[b]

\* C8 amended: for every input whose elements are pairwise different, no two
\* entries of arrayCombinate's result are equal as sequences of values.
C8_DistinctForDistinctInput ==
  (/\ pc = "done" /\ op = "arrayCombinate"
   /\ \A a, b \in 1..Len(array) : a # b => array[a] # array[b]) =>
    \A a, b \in 1..Len(resultStack) : a # b => resultStack[a] # resultStack[b]

\* C8 witness: arrayCombinate has returned the eight subsets of three different elements
C8_Witness ==
  /\ pc = "done" /\ op = "arrayCombinate" /\ Len(array) = 3
  /\ \A a, b \in 1..Len(array) : a # b => array[a] # array[b]
  /\ Len(resultStack) = 8

\* C9: shallow mode.  In every result of generate a literal field holding an
\* array or object is the very reference the template holds, so once the caller
\* has mutated that value through one result, every result shows the change.
C9_ShallowAliasing ==
  (Finished /\ op = "generate") =>
    \A idx \in 1..Len(result) : \A e \in {l \in LiteralFields : l.value.t = "ref"} :
      /\ Get(ResultCell(idx), e.key) = e.value
      /\ (pc = "mutated" /\ mutated = e.value.v) =>
           heap[Get(ResultCell(idx), e.key).v] # CallerHeap[mutated]

\* C9 witness: the caller mutated a literal array or object of the template
\* through one of at least two results
C9_Witness ==
  /\ pc = "mutated" /\ op = "generate" /\ Len(result) >= 2
  /\ \E e \in LiteralFields : e.value.t = "ref" /\ e.value.v = mutated

\* everything reachable from some result, and the sizes of the results' reachable
\* sets added up over the first n results: the two agree exactly when no address
\* is reachable from two results
AllResultReach == UNION {Reach(heap, result[a]) : a \in 1..Len(result)}
RECURSIVE ReachSizes(_)
ReachSizes(n) == IF n = 0 THEN 0 ELSE ReachSizes(n - 1) + Cardinality(Reach(heap, result[n]))

\* C10: deep-clone mode.  When cloning succeeded, no array or object nested in a
\* result of generate.mutable is reachable from another result or from the
\* template, so the one the caller mutated is seen by that result alone and
\* the template's values are as they were.
C10_DeepCloneIsolation ==
  (Finished /\ op = "mutable" /\ hasStructuredClone = "function" /\ errors = 0) =>
    /\ ReachSizes(Len(result)) = Cardinality(AllResultReach)
    /\ AllResultReach \cap TemplateReach = {}
    /\ pc = "mutated" =>
         /\ Cardinality({a \in 1..Len(result) : mutated \in Reach(heap, result[a])}) = 1
         /\ \A a \in TemplateReach : a <= Len(CallerHeap) => heap[a] = CallerHeap[a]

\* C10 witness: after a successful clone of at least two results holding a
\* nested value, the caller mutated one
C10_Witness ==
  /\ pc = "mutated" /\ op = "mutable" /\ hasStructuredClone = "function" /\ errors = 0
  /\ Len(result) >= 2 /\ TemplateRoots # {}

\* C11: generate.mutable and a clone that cannot be made.  When structuredClone
\* is not available, or throws for one of the results, generate.mutable reports
\* one error on console.error and returns the very array of objects generate
\* returned: every element is the uncloned result, also those before the one
\* whose clone threw.  An error is reported in no other case.
C11_CloneFailureFallsBack ==
  (Finished /\ op = "mutable") =>
    LET failing == \/ hasStructuredClone = "undefined"
                   \/ \E idx \in 1..Len(combos) : CloneThrows(heap, combos[idx])
    IN /\ failing => (errors = 1 /\ result = combos)
       /\ ~failing => errors = 0

\* C11 witness: the third result holds a function and the first two do not, so
\* two clones had been made when structuredClone threw
C11_Witness ==
  /\ pc = "done" /\ op = "mutable" /\ hasStructuredClone = "function" /\ errors = 1
  /\ Len(result) = 3 /\ result = combos
  /\ ~CloneThrows(heap, result[1]) /\ ~CloneThrows(heap, result[2])
  /\ CloneThrows(heap, result[3])

\* two values are structurally equal: the same primitive, or two arrays of equal
\* length whose elements are, or two objects with the same keys whose values are
RECURSIVE StructurallyEqual(_, _, _)
StructurallyEqual(h, x, y) ==
  IF x.t = "ref" /\ y.t = "ref"
  THEN LET a == h[x.v]
           b == h[y.v]
       IN /\ a.kind = b.kind
          /\ Len(a.vs) = Len(b.vs)
          /\ IF a.kind = "array"
             THEN \A p \in 1..Len(a.vs) : StructurallyEqual(h, a.vs[p], b.vs[p])
             ELSE /\ \A p \in 1..Len(a.ks) : HasKey(b, a.ks[p])
                  /\ \A p \in 1..Len(a.ks) : StructurallyEqual(h, a.vs[p], Get(b, a.ks[p]))
  ELSE x = y

\* two arrays of objects, given by their addresses, have the same length and are
\* index for index structurally equal
SameResults(h, xs, ys) ==
  /\ Len(xs) = Len(ys)
  /\ \A idx \in 1..Len(xs) : StructurallyEqual(h, Ref(xs[idx]), Ref(ys[idx]))

\* C12: when every clone succeeded, what generate.mutable returns has the length
\* of what its call of generate returned and is index for index structurally
\* equal to it: the same keys with the same values, the same keys left out.
C12_MutableSameExpansion ==
  (pc = "done" /\ op = "mutable" /\ hasStructuredClone = "function" /\ errors = 0) =>
    SameResults(heap, result, combos)

\* C12 witness: three cloned results, of which one lacks the Combination's key,
\* one holds a nested object and one holds the value undefined
C12_Witness ==
  /\ pc = "done" /\ op = "mutable" /\ hasStructuredClone = "function" /\ errors = 0
  /\ Len(result) >= 4 /\ result # combos
  /\ \E a, b, c \in 1..Len(result) :
       /\ Len(ResultCell(a).ks) < Len(ResultCell(b).ks)
       /\ \E p \in 1..Len(ResultCell(b).vs) : ResultCell(b).vs[p].t = "ref"
       /\ \E p \in 1..Len(ResultCell(c).vs) : ResultCell(c).vs[p].t = "undefined"

\* the nest field of the template at hand, and the template's other Combination
\* fields as generate reduced them
NestField == CHOOSE n \in 1..FieldCount : objectCombinations[n].key = nest.key
OtherFields == {n \in 1..FieldCount : objectCombinations[n].key # nest.key}
RECURSIVE ProductOver(_)
ProductOver(S) ==
  IF S = {} THEN 1
  ELSE LET n == CHOOSE m \in S : TRUE IN CandidateCount(n) * ProductOver(S \ {n})

\* the sub-objects generate(sub) returned, as values
SubObjects == {Ref(nest.result[p]) : p \in 1..Len(nest.result)}

\* C13 as stated: the candidates of generate.nest(sub) are the results of
\* generate(sub) in their order, and an outer generate with the Combination
\* fields x (m candidates) and y = generate.nest(sub) returns m * |generate(sub)|
\* results, each with y bound to one of those sub-objects.
C13_NestCrossProduct ==
  (pc = "done" /\ op = "generate" /\ nest.key # "" /\ Cardinality(OtherFields) = 1) =>
    /\ objectCombinations[NestField].values =
         [p \in 1..Len(nest.result) |-> Ref(nest.result[p])]
    /\ Len(result) = ProductOver(OtherFields) * Len(nest.result)
    /\ \A idx \in 1..Len(result) :
         HasKey(ResultCell(idx), nest.key) /\ Get(ResultCell(idx), nest.key) \in SubObjects

\* C14 as stated: whatever the sub-template, every result of the outer generate has
\* the nest field bound to one fully-expanded sub-object; for a sub-template of
\* literal fields only, generate.nest offers one candidate, the sub-template's
\* base object, and the outer generate returns as many results as without the
\* nest field.
C14_NestBindsOneSubObject ==
  (pc = "done" /\ op = "generate" /\ nest.key # "") =>
    /\ \A idx \in 1..Len(result) :
         HasKey(ResultCell(idx), nest.key) /\ Get(ResultCell(idx), nest.key) \in SubObjects
    /\ (\A p \in 1..Len(nest.object) : ~IsCombination(nest.object[p])) =>
         /\ Len(nest.result) = 1
         /\ heap[nest.result[1]] = MakeBaseObject(nest.object)
         /\ Len(result) = ProductOver(OtherFields)

\* the template's only Combination field, when it has exactly one
OnlyCombination == CHOOSE e \in CombinationFields : TRUE

\* C15 as stated: optional(v) offers the two candidates [v, KeyValueUndefined], and
\* for a template whose only Combination field is k: optional(v) generate returns
\* exactly two results, the first with k = v and the second without the key k.
C15_OptionalPresentThenAbsent ==
  (/\ Finished /\ op = "generate"
   /\ Cardinality(CombinationFields) = 1 /\ OnlyCombination.comb.kind = "optional") =>
    LET key == OnlyCombination.key
        v == OnlyCombination.comb.args[1]
    IN /\ objectCombinations[1].values = <<v, KeyValueUndefined>>
       /\ Len(result) = 2
       /\ HasKey(ResultCell(1), key) /\ Get(ResultCell(1), key) = v
       /\ ~HasKey(ResultCell(2), key)

\* C16: some(vs) offers the arrays of arrayCombinate(vs) in their order.  For a
\* template whose only Combination field is a: some(vs), generate returns
\* 2^Len(vs) results, and result number n (from 0) has the key a bound to an
\* array holding the elements of vs whose bit is set in n, the empty array of
\* result 0 included; for [1, 2] these are [], [1], [2], [1, 2].
C16_SomeIsArrayCombinate ==
  (/\ pc = "done" /\ op = "generate"
   /\ Cardinality(CombinationFields) = 1 /\ OnlyCombination.comb.kind = "some") =>
    LET key == OnlyCombination.key
        vs == OnlyCombination.comb.args
        Bound(idx) == Get(ResultCell(idx), key)
    IN /\ Len(result) = 2 ^ Len(vs)
       /\ \A idx \in 1..Len(result) :
            /\ HasKey(ResultCell(idx), key)
            /\ Bound(idx) = objectCombinations[1].values[idx]
            /\ Bound(idx).t = "ref" /\ heap[Bound(idx).v].kind = "array"
            /\ heap[Bound(idx).v].vs = BitmaskSubsequence(vs, idx - 1)
       /\ vs = Nums(2) =>
            [idx \in 1..4 |-> heap[Bound(idx).v].vs] =
              << <<>>, <<Num(1)>>, <<Num(2)>>, <<Num(1), Num(2)>> >>

\* C16 witness: generate({a: some([1, 2]), b: <literal>}) has returned four results
C16_Witness ==
  /\ pc = "done" /\ op = "generate" /\ LiteralFields # {}
  /\ Cardinality(CombinationFields) = 1 /\ OnlyCombination.comb = Some(Nums(2))
  /\ Len(result) = 4
  /\ heap[Get(ResultCell(1), OnlyCombination.key).v].vs = <<>>

\* C17 as stated: one(vs) offers the elements of vs in their order, repeated ones
\* kept, and for a template whose only Combination field is a: one(vs) generate
\* returns Len(vs) results, the i-th bound to vs[i]: a = vs[i], or the key a left
\* out when vs[i] is the omission marker KeyValueUndefined.
C17_OneIsTheValues ==
  (/\ Finished /\ op = "generate"
   /\ Cardinality(CombinationFields) = 1 /\ OnlyCombination.comb.kind \in {"one", "oneOf"}) =>
    LET key == OnlyCombination.key
        vs == IF OnlyCombination.comb.kind = "one" THEN OnlyCombination.comb.args
              ELSE CallerHeap[OnlyCombination.comb.args[1].v].vs
    IN /\ objectCombinations[1].values = vs
       /\ Len(result) = Len(vs)
       /\ \A idx \in 1..Len(result) :
            IF vs[idx] = KeyValueUndefined THEN ~HasKey(ResultCell(idx), key)
            ELSE HasKey(ResultCell(idx), key) /\ Get(ResultCell(idx), key) = vs[idx]

\* the Combination fields the caller built with new Combination
CustomFields == {e \in CombinationFields : e.comb.kind \in {"thunk", "array"}}

\* C18 as stated: a Combination the caller builds with new Combination, as the
\* README's upperAndLowerCase does, is expanded like a built-in Combination with
\* the same candidates: the call returns, the custom field's candidate sequence
\* is the one the caller gave, and with every field offering a candidate the
\* results are the cross-product in generate's order, the first field varying
\* fastest (9 results for a custom field of 3 candidates and one([1, 2, 3])).
C18_CustomLikeBuiltIn ==
  (op = "generate" /\ pc \in {"done", "threw"} /\ CustomFields # {}) =>
    /\ pc = "done"
    /\ \A e \in CustomFields : \E n \in 1..FieldCount :
         objectCombinations[n] = [key |-> e.key, values |-> e.comb.args]
    /\ AllNonEmpty =>
         /\ Len(result) = ProductUpTo(FieldCount)
         /\ \A idx \in 1..Len(result) : \A n \in 1..FieldCount :
              LET c == ChosenCandidate(idx - 1, n)
                  key == objectCombinations[n].key
              IN IF IsKeyValueUndefined(c) THEN ~HasKey(ResultCell(idx), key)
                 ELSE HasKey(ResultCell(idx), key) /\ Get(ResultCell(idx), key) = c

\* C19: generate called twice with the same template and the same log, the caller
\* mutating nothing in between, returns two arrays of equal length that are
\* index for index structurally equal.
C19_SecondCallSameResults ==
  (pc = "done" /\ first.called /\ first.log = log) =>
    SameResults(heap, first.result, result)

\* C19 witness: both calls returned at least four results; the second call's are
\* other objects, with other arrays from some in them, and one(arr) of an array
\* the caller holds is among the fields
C19_Witness ==
  /\ pc = "done" /\ first.called /\ first.log = log
  /\ Len(result) >= 4 /\ Len(first.result) = Len(result)
  /\ \A idx \in 1..Len(result) : result[idx] # first.result[idx]
  /\ \E e \in CombinationFields : e.comb.kind = "some"
  /\ \E e \in CombinationFields : e.comb.kind = "oneOf"
  /\ Reach(heap, result[1]) \cap Reach(heap, first.result[1]) = {}

\* what the producer of a Combination field returns from the caller's untouched
\* values, for the combinators whose candidates are those values themselves
GivenCandidates(comb) ==
  CASE comb.kind = "oneOf" -> CallerHeap[comb.args[1].v].vs
    [] comb.kind = "optional" -> <<comb.args[1], KeyValueUndefined>>
    [] OTHER -> comb.args

\* C20: log has no effect on what generate returns: generate(t, true) and
\* generate(t, false), in either order, return arrays of equal length that are
\* index for index structurally equal.  After logging, the template's arrays and
\* objects are as the caller made them, the base object holds exactly the literal
\* fields, and every candidate sequence is what its producer returned.
C20_LogChangesNothing ==
  /\ (pc = "done" /\ first.called /\ first.log # log) =>
       SameResults(heap, first.result, result)
  /\ (log /\ pc \in {"logged", "loop", "done"}) =>
       /\ \A a \in 1..Len(CallerHeap) : heap[a] = CallerHeap[a]
       /\ heap[baseObject] = MakeBaseObject(object)
       /\ \A n \in 1..FieldCount : \A e \in CombinationFields :
            e.key = objectCombinations[n].key =>
              IF e.comb.kind = "some"
              THEN [p \in 1..CandidateCount(n) |-> heap[objectCombinations[n].values[p].v].vs]
                     = ArrayCombinate(e.comb.args)
              ELSE objectCombinations[n].values = GivenCandidates(e.comb)

\* C20 witness: a call with log after one without returned at least two results,
\* one of them without the key of an optional field, and something was printed
C20_Witness ==
  /\ pc = "done" /\ first.called /\ log /\ ~first.log
  /\ Len(logs) = 2 /\ Len(result) >= 2
  /\ \E e \in CombinationFields : e.comb.kind = "optional" /\ ~HasKey(ResultCell(2), e.key)
  /\ LiteralFields # {}

\* C21: the template is read-only to the engine.  No step of generate or
\* generate.mutable changes the template's fields, and none writes to an array
\* or object the caller made, the array handed to one included; only the
\* caller's own mutation afterwards does.
C21_TemplateReadOnly ==
  [][/\ object' = object
     /\ pc' # "mutated" =>
          \A a \in 1..Len(CallerHeap) : heap'[a] = heap[a] /\ heap[a] = CallerHeap[a]]_vars

\* C21 witness: a call whose template holds a nested literal and one(arr) of an
\* array the caller holds has returned results that refer to the literal
C21_Witness ==
  /\ pc = "done" /\ op \in {"generate", "mutable"} /\ Len(result) >= 2
  /\ \E e \in CombinationFields : e.comb.kind = "oneOf"
  /\ \E e \in LiteralFields : e.value.t = "ref"
  /\ heap[3] = CallerHeap[3]

\* C22: illegal(c) is c.  generate on a template written with illegal(c) returns
\* what it returns with c in that place: arrays of equal length, index for index
\* structurally equal, from the same candidate sequences; with illegal(optional(v))
\* as the only Combination there is one result with the key and one without.
C22_IllegalIsIdentity ==
  (pc = "done" /\ first.called /\ viaIllegal) =>
    /\ SameResults(heap, first.result, result)
    /\ \A e \in CombinationFields :
         e.comb.kind = "optional" =>
           \E n \in 1..FieldCount :
             /\ objectCombinations[n].key = e.key
             /\ objectCombinations[n].values = <<e.comb.args[1], KeyValueUndefined>>
    /\ (Cardinality(CombinationFields) = 1 /\ OnlyCombination.comb = Optional(Num(5))) =>
         /\ Len(result) = 2
         /\ Get(ResultCell(1), OnlyCombination.key) = Num(5)
         /\ ~HasKey(ResultCell(2), OnlyCombination.key)

\* C22 witness: generate({k: illegal(optional(5)), ...}) has returned two results
\* after generate({k: optional(5), ...}) had
C22_Witness ==
  /\ pc = "done" /\ first.called /\ viaIllegal
  /\ Cardinality(CombinationFields) = 1 /\ OnlyCombination.comb = Optional(Num(5))
  /\ Len(result) = 2 /\ Len(first.result) = 2 /\ result # first.result

\* C23 as stated: arrayCombinate and generate are total.  No call of either
\* raises, whatever the finite input; a call that has returned has returned a
\* sequence; a call that has not returned can take its next step.
C23_Total ==
  op \in {"generate", "arrayCombinate"} =>
    /\ pc # "threw"
    /\ (pc = "done" /\ op = "generate") =>
         \A n \in 1..Len(result) : result[n] \in 1..Len(heap) /\ heap[result[n]].kind = "object"
    /\ (pc = "done" /\ op = "arrayCombinate") =>
         \A n \in 1..Len(resultStack) : resultStack[n] \in Seq({Num(1), Num(2), Num(3)})
    /\ pc \notin {"done", "mutated"} => ENABLED Next

\* the keys of the template's Combination fields, in the order of the entries
CombinationKeys ==
  LET entries == OwnEntries(object)
      Keys[n \in 0..Len(entries)] ==
        IF n = 0 THEN <<>>
        ELSE IF IsCombination(entries[n]) THEN Append(Keys[n - 1], entries[n].key)
        ELSE Keys[n - 1]
  IN Keys[Len(entries)]

\* C24: in one generate call no producer is invoked twice; from the first combo
\* object on (and through the whole expansion loop, up to the return) every
\* Combination field's producer has been invoked exactly once, in the order of
\* the entries, and the candidate sequences the loop reads are the ones those
\* invocations returned.
C24_ProducersOnceBeforeExpansion ==
  /\ \A a, b \in 1..Len(invoked) : a # b => invoked[a] # invoked[b]
  /\ (combos # <<>> \/ scratch # <<>> \/ pc \in {"loop", "clone", "done", "mutated"}) =>
       /\ invoked = CombinationKeys
       /\ Len(objectCombinations) = Len(invoked)
       /\ \A n \in 1..Len(invoked) : objectCombinations[n].key = invoked[n]

\* C24 witness: a call over two Combination fields has returned several results
C24_Witness ==
  /\ pc = "done" /\ op = "generate" /\ Len(invoked) = 2 /\ Len(result) >= 4

\* where the caller declared a key in the template
DeclaredPosition(key) == CHOOSE p \in 1..Len(object) : object[p].key = key

\* two results holding the same thing, or both nothing, under a key
SameUnder(x, y, key) ==
  /\ HasKey(heap[x], key) = HasKey(heap[y], key)
  /\ HasKey(heap[x], key) => Get(heap[x], key) = Get(heap[y], key)

\* the outer loop runs in the order the producers were invoked, and the field
\* processed first is the one that varies between the first two results
LoopFollowsEvaluation ==
  /\ Len(objectCombinations) = Len(invoked)
  /\ \A n \in 1..Len(invoked) : objectCombinations[n].key = invoked[n]
  /\ (pc = "done" /\ AllNonEmpty /\ FieldCount >= 1 /\ CandidateCount(1) >= 2) =>
       /\ ~SameUnder(result[1], result[2], invoked[1])
       /\ \A n \in 2..Len(invoked) : SameUnder(result[1], result[2], invoked[n])

\* C25 as stated: generate evaluates and processes the Combination fields in the
\* order the caller declared them, whatever the field names.
C25_DeclarationOrder ==
  pc \in {"loop", "done"} =>
    /\ LoopFollowsEvaluation
    /\ \A a, b \in 1..Len(invoked) :
         a < b => DeclaredPosition(invoked[a]) < DeclaredPosition(invoked[b])

\* C25 amended: generate evaluates and processes first the Combination fields
\* whose names are array indices, in ascending numeric order, and then the other
\* Combination fields in the order the caller declared them.
C25_IndexKeysThenDeclarationOrder ==
  pc \in {"loop", "done"} =>
    /\ LoopFollowsEvaluation
    /\ \A a, b \in 1..Len(invoked) :
         a < b =>
           IF IsArrayIndex(invoked[a])
           THEN IsArrayIndex(invoked[b]) => ArrayIndexOf(invoked[a]) < ArrayIndexOf(invoked[b])
           ELSE /\ ~IsArrayIndex(invoked[b])
                /\ DeclaredPosition(invoked[a]) < DeclaredPosition(invoked[b])

\* C25 witness: a call has returned whose two Combination fields were declared
\* as "b" and then "a" and processed in that order
C25_Witness ==
  /\ pc = "done" /\ invoked = <<"b", "a">> /\ Len(result) >= 4
  /\ DeclaredPosition("b") < DeclaredPosition("a")

\* C26 as stated: in the expansion loop the empty accumulator stands for one
\* empty combo while the first Combination field is processed, every candidate
\* of that field giving one combo; while a later field is processed an empty
\* accumulator gives no combo.
C26_EmptyAccumulatorOnlyFirst ==
  (pc = "loop" /\ i < FieldCount) =>
    /\ i = 0 => combos = <<>> /\ Len(scratch) = j + k
    /\ (i >= 1 /\ combos = <<>>) => scratch = <<>>

\* C27: loop invariant of generate.  Once the expansion loop has processed the
\* first i >= 1 Combination fields, each with at least one candidate, the
\* accumulator holds exactly L1 * ... * Li combos; each holds every literal
\* field with the template's value and no key of a Combination field the loop
\* has not processed yet.
C27_LoopInvariant ==
  (/\ pc = "loop" /\ op = "generate" /\ i >= 1 /\ j = 0 /\ k = 0
   /\ \A n \in 1..i : CandidateCount(n) >= 1) =>
    /\ scratch = <<>>
    /\ Len(combos) = ProductUpTo(i)
    /\ \A c \in 1..Len(combos) :
         /\ \A e \in LiteralFields :
              HasKey(heap[combos[c]], e.key) /\ Get(heap[combos[c]], e.key) = e.value
         /\ \A n \in (i + 1)..FieldCount : ~HasKey(heap[combos[c]], objectCombinations[n].key)

\* C27 witness: the first of two Combination fields has been processed and the
\* accumulator holds its two combos, waiting for the second field
C27_Witness ==
  /\ pc = "loop" /\ op = "generate" /\ i = 1 /\ j = 0 /\ k = 0
  /\ FieldCount = 2 /\ CandidateCount(1) = 2 /\ CandidateCount(2) >= 2
  /\ Len(combos) = 2

\* an object as the call made it: every literal field with the template's value
\* and no field "t"
AsMade(a) ==
  /\ ~HasKey(heap[a], "t")
  /\ \A e \in LiteralFields : HasKey(heap[a], e.key) /\ Get(heap[a], e.key) = e.value

\* C28: every object generate returns is an object of its own that the call
\* created: the results are pairwise different objects, none is the Base Object,
\* an object the caller held before, or a result of the earlier call.  So after the
\* caller assigned or deleted a top-level field on one result, every other result
\* and the Base Object are as the call made them, and a later call on the same
\* template returns objects as made, index for index equal to the earlier
\* call's untouched results.
C28_ResultsAreFreshObjects ==
  (pc = "done" /\ op = "generate") =>
    /\ \A a, b \in 1..Len(result) : a # b => result[a] # result[b]
    /\ \A a \in 1..Len(result) :
         /\ result[a] > Len(CallerHeap)
         /\ result[a] # baseObject
         /\ \A b \in 1..Len(first.result) : result[a] # first.result[b]
    /\ mutated # 0 =>
         /\ AsMade(baseObject)
         /\ \A a \in 1..Len(result) : result[a] # mutated => AsMade(result[a])
         /\ \A a \in 1..Len(CallerHeap) : heap[a] = CallerHeap[a]
         /\ first.called =>
              /\ Len(result) = Len(first.result)
              /\ \A a \in 1..Len(result) :
                   first.result[a] # mutated =>
                     StructurallyEqual(heap, Ref(first.result[a]), Ref(result[a]))

\* C28 witness: the caller wrote to one of the earlier call's four results, the
\* later call has returned four results, and the written one now differs from
\* its counterpart
C28_Witness ==
  /\ pc = "done" /\ op = "generate" /\ first.called /\ mutated # 0
  /\ Len(result) = 4 /\ Len(first.result) = 4
  /\ \E a \in 1..4 :
       /\ first.result[a] = mutated
       /\ ~StructurallyEqual(heap, Ref(first.result[a]), Ref(result[a]))

\* the combo objects the call has pushed so far
Pushed == {scratch[n] : n \in 1..Len(scratch)} \cup {combos[n] : n \in 1..Len(combos)}

\* C29: no step of the engine writes to a combo object that has been pushed onto
\* scratch or the accumulator: such an object is after the step exactly what it
\* was before, and a combo pushed while a later field is processed is a new
\* object, not one pushed before.
C29_PushedCombosNeverWritten ==
  [][pc' # "mutated" =>
       /\ \A a \in Pushed : heap'[a] = heap[a]
       /\ \A n \in 1..Len(scratch') : n > Len(scratch) => scratch'[n] \notin Pushed]_vars

\* C29 witness: while the second field is processed, copies of the two combos of
\* the first field have been pushed and the originals are still in the accumulator
C29_Witness ==
  /\ pc = "loop" /\ i = 1 /\ Len(combos) = 2 /\ Len(scratch) >= 2
  /\ \A n \in 1..Len(combos) : ~HasKey(heap[combos[n]], objectCombinations[2].key)
  /\ \E n \in 1..Len(scratch) : HasKey(heap[scratch[n]], objectCombinations[2].key)

\* everything reachable from some result of the earlier call
FirstResultReach == UNION {Reach(heap, first.result[a]) : a \in 1..Len(first.result)}

\* C30 as stated: two generate calls in shallow mode, on the same template,
\* return results that share nothing: no array or object is reachable from a
\* result of each, and what the caller mutated through a result of the first
\* call is not reachable from a result of the second.
C30_CallsShareNothing ==
  (pc \in {"done", "mutated"} /\ op = "generate" /\ first.called) =>
    /\ FirstResultReach \cap AllResultReach = {}
    /\ mutated \notin FirstResultReach \cap AllResultReach

\* C30 amended: two generate calls in shallow mode, on the same template, share
\* only what the caller put into the template: every array or object reachable
\* from a result of each call is reachable from a literal field of the template
\* or from a value the caller handed to one of its combinators.  The result
\* objects, and the arrays some builds, belong to one call; a mutation through
\* a result of one call shows in the other call's results only when it is a
\* mutation of such a value of the template.
C30_CallsShareOnlyTheTemplate ==
  (pc \in {"done", "mutated"} /\ op = "generate" /\ first.called) =>
    /\ FirstResultReach \cap AllResultReach \subseteq TemplateReach
    /\ \A a \in 1..Len(result) : result[a] \notin FirstResultReach
    /\ \A a \in 1..Len(first.result) : first.result[a] \notin AllResultReach
    /\ (mutated \in FirstResultReach \cap AllResultReach) => mutated \in TemplateReach

\* C30 witness: the second call has returned after the caller mutated an array
\* that some built for the first call; the results of both calls also hold an
\* object of the template
C30_Witness ==
  /\ pc = "done" /\ op = "generate" /\ first.called
  /\ mutated \in FirstResultReach \ TemplateReach
  /\ mutated \notin AllResultReach
  /\ FirstResultReach \cap AllResultReach # {}
  /\ Len(result) >= 2

====
